---- MODULE Spec2Model ----
(***************************************************************************)
(* Model of src/util.hpp: the coordinate/direction algebra, Grid<T> and    *)
(* RingBuffer<T>.  T is int.  Heap buffers are modelled explicitly so that *)
(* two instances pointing at one buffer can be told from two instances     *)
(* with equal contents.  C array index i is sequence index i+1.            *)
(***************************************************************************)
EXTENDS Integers, Sequences, FiniteSets, TLC

\* ---------------------------------------------------------------- bounds
MaxCap     == 3      \* largest RingBuffer capacity constructed
MaxOps     == 4      \* longest call history on a single RingBuffer
MaxCopyOps == 3      \* longest call history when a copy is involved
MaxVal     == 1      \* element values are 0..MaxVal
MaxDim     == 2      \* largest Grid width and height constructed
MaxGridOps == 2      \* longest call history on the Grids
MaxDist    == 2      \* coordinate pairs differ by at most this much per axis

Val  == 0..MaxVal
NULL == 0            \* nullptr

VARIABLES
  heap,   \* address -> array contents (the buffers obtained from new T[n])
  rb,     \* RingBuffer instance -> its fields (data, capacity_, begin_, end_)
  log,    \* the calls made so far, each with the contents seen before it
  grid,   \* Grid instance -> its fields (data, w, h)
  ctor,   \* the arguments the first Grid was constructed with
  ca, cb, \* two coordinates
  cd,     \* the direction of the last step from ca to cb, if any
  res,    \* result of ca - cb, if computed
  rres,   \* result of cb - ca, if computed
  nb,     \* result of is_neighbor(ca, cb), if computed
  rnb,    \* result of is_neighbor(cb, ca), if computed
  inv,    \* result of -cd, if computed
  inv2,   \* result of -(-cd), if computed
  it,     \* the CoordRange iterator of the running whole-grid scan
  seen,   \* the coordinates the running scan has yielded
  prev,   \* the coordinates the scan before it yielded
  freed   \* address -> number of delete[] calls made on it

ringVars == <<rb>>
gridVars == <<grid, ctor>>
geoVars  == <<ca, cb, cd, res, rres, nb, rnb, inv, inv2>>
scanVars == <<it, seen, prev>>
vars == <<heap, rb, log, grid, ctor, ca, cb, cd, res, rres, nb, rnb, inv, inv2,
          it, seen, prev, freed>>

None == "none"

\* the parts of the state a scenario does not use
NoRing == rb = << >>
NoGrid == grid = << >> /\ ctor = [init |-> 0, w |-> 0, h |-> 0]
NoGeo  == /\ ca = [x |-> 0, y |-> 0] /\ cb = [x |-> 0, y |-> 0]
          /\ cd = None /\ res = None /\ rres = None
          /\ nb = None /\ rnb = None /\ inv = None /\ inv2 = None
NoScan == it = [x |-> 0, y |-> 0] /\ seen = << >> /\ prev = << >>

\* no delete[] has been called yet
NoneFreed == freed = [a \in DOMAIN heap |-> 0]

\* ------------------------------------------------------------ RingBuffer

capacity(r) == r.capacity_

\* slip: the wrap-around term is left out
size_nowrap(r) == r.end_ - r.begin_

\* slip: <= for <, so that equal cursors count as a full buffer
size_le(r) == r.end_ - r.begin_ + (IF r.end_ <= r.begin_ THEN 1 ELSE 0) * capacity(r)

size(r) == r.end_ - r.begin_ + (IF r.end_ < r.begin_ THEN 1 ELSE 0) * capacity(r)

empty(r) == r.begin_ = r.end_

front(hp, r) == hp[r.data][r.begin_ + 1]

back(hp, r) ==
  IF r.end_ = 0 THEN hp[r.data][(capacity(r) - 1) + 1]
                ELSE hp[r.data][(r.end_ - 1) + 1]

\* slip: begin_ is left out
at_nobegin(hp, r, i) == hp[r.data][(i % r.capacity_) + 1]

at(hp, r, i) == hp[r.data][((r.begin_ + i) % r.capacity_) + 1]

\* the logical window: at(0), ..., at(size()-1)
Contents(hp, r) == [k \in 1..size(r) |-> at(hp, r, k - 1)]

Snapshot == [j \in DOMAIN rb |-> Contents(heap, rb[j])]

Entry(o, i, v) == [op |-> o, who |-> i, x |-> v, before |-> Snapshot]

\* RingBuffer(int capacity_): new T[capacity_] leaves the ints indeterminate
RingBufferNew(cap, garbage) ==
  /\ heap = (1 :> garbage)
  /\ rb = (1 :> [data |-> 1, capacity_ |-> cap, begin_ |-> 0, end_ |-> 0])

\* slip: writes the slot before moving the cursor
push_front_postdec(i, x) ==
  LET r  == rb[i]
      b1 == r.begin_ - 1
      b2 == IF b1 < 0 THEN capacity(r) - 1 ELSE b1
  IN /\ rb'   = [rb EXCEPT ![i].begin_ = b2]
     /\ heap' = [heap EXCEPT ![r.data][r.begin_ + 1] = x]
     /\ log'  = Append(log, Entry("push_front", i, x))

push_front(i, x) ==
  LET r  == rb[i]
      b1 == r.begin_ - 1
      b2 == IF b1 < 0 THEN capacity(r) - 1 ELSE b1
  IN /\ rb'   = [rb EXCEPT ![i].begin_ = b2]
     /\ heap' = [heap EXCEPT ![r.data][b2 + 1] = x]
     /\ log'  = Append(log, Entry("push_front", i, x))

pop_front(i) ==
  LET r  == rb[i]
      b1 == r.begin_ + 1
      b2 == IF b1 >= capacity(r) THEN 0 ELSE b1
  IN /\ rb'  = [rb EXCEPT ![i].begin_ = b2]
     /\ log' = Append(log, Entry("pop_front", i, 0))
     /\ UNCHANGED heap

\* slip: a push that reaches begin_ drops the oldest element
push_back_slide(i, x) ==
  LET r  == rb[i]
      e1 == r.end_ + 1
      e2 == IF e1 >= capacity(r) THEN 0 ELSE e1
      b1 == IF r.begin_ + 1 >= capacity(r) THEN 0 ELSE r.begin_ + 1
  IN /\ heap' = [heap EXCEPT ![r.data][r.end_ + 1] = x]
     /\ rb'   = [rb EXCEPT ![i].end_ = e2,
                           ![i].begin_ = IF e2 = r.begin_ THEN b1 ELSE r.begin_]
     /\ log'  = Append(log, Entry("push_back", i, x))

\* slip: moves the cursor before writing the slot
push_back_preinc(i, x) ==
  LET r  == rb[i]
      e1 == r.end_ + 1
      e2 == IF e1 >= capacity(r) THEN 0 ELSE e1
  IN /\ heap' = [heap EXCEPT ![r.data][e2 + 1] = x]
     /\ rb'   = [rb EXCEPT ![i].end_ = e2]
     /\ log'  = Append(log, Entry("push_back", i, x))

push_back(i, x) ==
  LET r  == rb[i]
      e1 == r.end_ + 1
      e2 == IF e1 >= capacity(r) THEN 0 ELSE e1
  IN /\ heap' = [heap EXCEPT ![r.data][r.end_ + 1] = x]
     /\ rb'   = [rb EXCEPT ![i].end_ = e2]
     /\ log'  = Append(log, Entry("push_back", i, x))

\* slip: no wrap-around below zero
pop_back_nowrap(i) ==
  LET r  == rb[i]
  IN /\ rb'  = [rb EXCEPT ![i].end_ = r.end_ - 1]
     /\ log' = Append(log, Entry("pop_back", i, 0))
     /\ UNCHANGED heap

pop_back(i) ==
  LET r  == rb[i]
      e1 == r.end_ - 1
      e2 == IF e1 < 0 THEN capacity(r) - 1 ELSE e1
  IN /\ rb'  = [rb EXCEPT ![i].end_ = e2]
     /\ log' = Append(log, Entry("pop_back", i, 0))
     /\ UNCHANGED heap

\* std::copy(first, first + n, d_first): element by element, front to back
StdCopy(src, n, dst) == [k \in 1..Len(dst) |-> IF k <= n THEN src[k] ELSE dst[k]]

\* RingBuffer(RingBuffer const& that): data is initialised from that.data
RingBufferCopy(i, j) ==
  LET that == rb[i]
      d    == that.data
  IN /\ rb'   = rb @@ (j :> [data |-> d, capacity_ |-> that.capacity_,
                             begin_ |-> that.begin_, end_ |-> that.end_])
     /\ heap' = [heap EXCEPT ![d] = StdCopy(heap[that.data], that.capacity_, heap[d])]
     /\ log'  = Append(log, Entry("copy", j, 0))

\* front() = x, through the T& that front() returns
set_front(i, x) ==
  LET r == rb[i]
  IN /\ heap' = [heap EXCEPT ![r.data][r.begin_ + 1] = x]
     /\ log'  = Append(log, Entry("set_front", i, x))
     /\ UNCHANGED rb

\* back() = x, through the T& that back() returns
set_back(i, x) ==
  LET r == rb[i]
      k == IF r.end_ = 0 THEN capacity(r) - 1 ELSE r.end_ - 1
  IN /\ heap' = [heap EXCEPT ![r.data][k + 1] = x]
     /\ log'  = Append(log, Entry("set_back", i, x))
     /\ UNCHANGED rb

\* -------------------------------------------- one RingBuffer, any calls

Init ==
  /\ \E cap \in 1..MaxCap : \E garbage \in [1..cap -> Val] :
       RingBufferNew(cap, garbage)
  /\ log = << >>
  /\ NoGrid /\ NoGeo /\ NoScan /\ NoneFreed

PushFront == \E x \in Val : push_front(1, x)
PopFront  == pop_front(1)
PushBack  == \E x \in Val : push_back(1, x)
PopBack   == pop_back(1)

Next ==
  /\ Len(log) < MaxOps
  /\ (PushFront \/ PopFront \/ PushBack \/ PopBack)
  /\ UNCHANGED <<gridVars, geoVars, scanVars, freed>>

Spec == Init /\ [][Next]_vars

\* ------------------------------------- a RingBuffer and a copy of it

CopyConstruct == 2 \notin DOMAIN rb /\ RingBufferCopy(1, 2)
AnyPushFront  == \E i \in DOMAIN rb : \E x \in Val : push_front(i, x)
AnyPopFront   == \E i \in DOMAIN rb : pop_front(i)
AnyPushBack   == \E i \in DOMAIN rb : \E x \in Val : push_back(i, x)
AnyPopBack    == \E i \in DOMAIN rb : pop_back(i)
\* the caller keeps the precondition of front()/back(): not on an empty buffer
AnySetFront   == \E i \in DOMAIN rb : \E x \in Val : ~empty(rb[i]) /\ set_front(i, x)
AnySetBack    == \E i \in DOMAIN rb : \E x \in Val : ~empty(rb[i]) /\ set_back(i, x)

NextRingCopy ==
  /\ Len(log) < MaxCopyOps
  /\ (CopyConstruct \/ AnyPushFront \/ AnyPopFront \/ AnyPushBack \/ AnyPopBack
        \/ AnySetFront \/ AnySetBack)
  /\ UNCHANGED <<gridVars, geoVars, scanVars, freed>>

SpecRingCopy == Init /\ [][NextRingCopy]_vars

\* ------------------------------------------------ RingBuffer properties

IsPush(e) == e.op \in {"push_front", "push_back"}
IsPop(e)  == e.op \in {"pop_front", "pop_back"}

\* C1: after RingBuffer(K), K >= 2, and push_back of v0..v_{K-2} in order,
\* size() = K-1, front() = v0, back() = v_{K-2} and at(i) = v_i for each i.
C1_PushBackFill ==
  LET r == rb[1]
      K == capacity(r)
      n == Len(log)
  IN (/\ K >= 2
      /\ n = K - 1
      /\ \A k \in 1..n : log[k].op = "push_back" /\ log[k].who = 1)
     => /\ size(r) = K - 1
        /\ front(heap, r) = log[1].x
        /\ back(heap, r) = log[n].x
        /\ \A i \in 0..(K - 2) : at(heap, r, i) = log[i + 1].x

C1_Witness ==
  /\ capacity(rb[1]) = 3
  /\ Len(log) = 2
  /\ \A k \in 1..2 : log[k].op = "push_back" /\ log[k].who = 1
  /\ log[1].x # log[2].x
  /\ size(rb[1]) = 2

\* C2: in every state reached by any calls of push_front, push_back,
\* pop_front and pop_back (pushes on a full buffer and pops on an empty one
\* included) 0 <= begin_ < K, 0 <= end_ < K and 0 <= size() <= capacity().
C2_CursorsInRange ==
  \A i \in DOMAIN rb :
    LET r == rb[i]
    IN /\ 0 <= r.begin_ /\ r.begin_ < capacity(r)
       /\ 0 <= r.end_ /\ r.end_ < capacity(r)
       /\ 0 <= size(r) /\ size(r) <= capacity(r)

C2_Witness ==
  /\ \E k \in 1..Len(log) : IsPop(log[k]) /\ log[k].before[1] = << >>
  /\ \E k \in 1..Len(log) :
       IsPush(log[k]) /\ Len(log[k].before[1]) = capacity(rb[1]) - 1
  /\ capacity(rb[1]) >= 2
  /\ C2_CursorsInRange

\* C3: whenever size() < capacity() before push_back(x) or push_front(x),
\* afterwards size() is one greater, x is at the pushed end and every
\* element stored before is still read at its (shifted) position.
C3_PushLosesNothing ==
  LET n == Len(log)
  IN (n >= 1 /\ IsPush(log[n]) /\ log[n].who = 1
        /\ Len(log[n].before[1]) < capacity(rb[1]))
     => LET old == log[n].before[1]
            now == Contents(heap, rb[1])
        IN /\ size(rb[1]) = Len(old) + 1
           /\ log[n].op = "push_back"  => now = Append(old, log[n].x)
           /\ log[n].op = "push_front" => now = << log[n].x >> \o old

\* C4: a copy is independent: a push_front, push_back or write through
\* front()/back() on one of the two instances never changes the elements
\* read from the other.
C4_CopyIndependent ==
  LET n == Len(log)
  IN (/\ n >= 1
      /\ 2 \in DOMAIN log[n].before
      /\ log[n].op \in {"push_front", "push_back", "set_front", "set_back"})
     => \A j \in DOMAIN rb \ {log[n].who} :
          Contents(heap, rb[j]) = log[n].before[j]

\* C5: on a non-full buffer push_front(x) immediately followed by
\* pop_front() leaves size() and every at(i), 0 <= i < size(), as before.
C5_PushPopFrontRoundTrip ==
  LET n == Len(log)
  IN (/\ n >= 2
      /\ log[n - 1].op = "push_front" /\ log[n - 1].who = 1
      /\ log[n].op = "pop_front" /\ log[n].who = 1
      /\ Len(log[n - 1].before[1]) < capacity(rb[1]))
     => /\ size(rb[1]) = Len(log[n - 1].before[1])
        /\ Contents(heap, rb[1]) = log[n - 1].before[1]

C5_Witness ==
  LET n == Len(log)
  IN /\ n >= 3
     /\ log[n - 1].op = "push_front" /\ log[n - 1].who = 1
     /\ log[n].op = "pop_front" /\ log[n].who = 1
     /\ Len(log[n - 1].before[1]) >= 1
     /\ Contents(heap, rb[1]) = log[n - 1].before[1]

\* C13: front(), back(), pop_front() and pop_back() on an empty RingBuffer
\* (and indexing a Grid outside its bounds) fail at once instead of returning
\* a value or changing state; here: a pop on an empty buffer leaves it empty.
C13_EmptyPopRejected ==
  LET n == Len(log)
  IN (n >= 1 /\ IsPop(log[n]) /\ log[n].who = 1 /\ log[n].before[1] = << >>)
     => empty(rb[1]) /\ size(rb[1]) = 0

\* steps from cursor b forward around a circle of K slots until cursor e
RECURSIVE Forward(_, _, _)
Forward(b, e, K) ==
  IF b = e THEN 0 ELSE 1 + Forward(IF b + 1 >= K THEN 0 ELSE b + 1, e, K)

\* C15: in every reachable state empty() = (size() = 0), and size() is the
\* forward circular distance from the front cursor to the back cursor.
C15_SizeIsForwardDistance ==
  \A i \in DOMAIN rb :
    LET r == rb[i]
    IN /\ empty(r) <=> (size(r) = 0)
       /\ size(r) = Forward(r.begin_, r.end_, capacity(r))

C15_Witness ==
  /\ rb[1].end_ < rb[1].begin_
  /\ size(rb[1]) = 2
  /\ ~empty(rb[1])
  /\ Forward(rb[1].begin_, rb[1].end_, capacity(rb[1])) = 2

\* the deque the first n calls describe
RECURSIVE AbsAfter(_)
AbsAfter(n) ==
  IF n = 0 THEN << >>
  ELSE LET e == log[n]
           q == AbsAfter(n - 1)
       IN CASE e.op = "push_back"  -> Append(q, e.x)
            [] e.op = "push_front" -> << e.x >> \o q
            [] e.op = "pop_front"  -> IF q = << >> THEN q ELSE Tail(q)
            [] e.op = "pop_back"   -> IF q = << >> THEN q ELSE SubSeq(q, 1, Len(q) - 1)
            [] OTHER               -> q

\* pops only when non-empty, never more than capacity()-1 elements
Disciplined ==
  \A k \in 1..Len(log) :
    /\ log[k].who = 1
    /\ IsPush(log[k]) \/ IsPop(log[k])
    /\ IsPop(log[k]) => AbsAfter(k - 1) # << >>
    /\ Len(AbsAfter(k)) <= capacity(rb[1]) - 1

\* C16: for every interleaving of the four mutators from an empty buffer
\* with pops only when non-empty and at most capacity()-1 elements, size() is
\* the length of the abstract deque, at(i) its i-th element, front() its
\* first and back() its last element.
C16_RefinesDeque ==
  Disciplined =>
    LET q == AbsAfter(Len(log))
        r == rb[1]
    IN /\ size(r) = Len(q)
       /\ \A i \in 0..(Len(q) - 1) : at(heap, r, i) = q[i + 1]
       /\ q # << >> => front(heap, r) = q[1] /\ back(heap, r) = q[Len(q)]

C16_Witness ==
  /\ Disciplined
  /\ Len(log) >= 3
  /\ log[Len(log)].op = "push_front"
  /\ AbsAfter(Len(log)) = << 0, 1 >>
  /\ Contents(heap, rb[1]) = << 0, 1 >>
  /\ \E k \in 1..Len(log) : IsPop(log[k])

\* C17: push_back and pop_back leave the front cursor unchanged, push_front
\* and pop_front leave the back cursor unchanged (also on a full buffer), a
\* push writes exactly one slot, a pop writes none, and capacity() never
\* changes.
C17_MutatorsFrame ==
  [][Len(log') = Len(log) + 1 =>
       LET e == log'[Len(log')]
           r == rb[e.who]
           q == rb'[e.who]
       IN /\ e.op \in {"push_back", "pop_back"} => q.begin_ = r.begin_
          /\ e.op \in {"push_front", "pop_front"} => q.end_ = r.end_
          /\ IsPush(e) => \E k \in 1..capacity(r) :
                             heap' = [heap EXCEPT ![r.data][k] = e.x]
          /\ IsPop(e) => heap' = heap
          /\ capacity(q) = capacity(r)
          /\ q.data = r.data]_vars

C17_Witness ==
  LET n == Len(log)
  IN /\ n >= 1 /\ log[n].op = "push_back" /\ log[n].who = 1
     /\ capacity(rb[1]) >= 2
     /\ Len(log[n].before[1]) = capacity(rb[1]) - 1
     /\ empty(rb[1])

Indeterminate == -1..MaxDim

\* the coordinates of the rectangle the first Grid was constructed with
GridDomain == {[x |-> px, y |-> py] : px \in 0..(ctor.w - 1), py \in 0..(ctor.h - 1)}

grid_size(g) == g.w * g.h

\* slip: the row stride is left out
grid_index_nostride(g, a) == a.x + a.y

\* slip: the height is taken as the row stride
grid_index_hstride(g, a) == a.x + g.h * a.y

grid_index(g, a) == a.x + g.w * a.y

grid_get(hp, g, a) == hp[g.data][grid_index(g, a) + 1]

\* *(begin() + k): the k-th element an iteration visits, from 0
grid_iter(hp, g, k) == hp[g.data][k + 1]

\* begin() .. end(): the w*h elements from data on
grid_elements(hp, g) == [k \in 1..grid_size(g) |-> hp[g.data][k]]

InBuffer(hp, g, a) ==
  /\ g.data # NULL
  /\ grid_index(g, a) >= 0
  /\ grid_index(g, a) < Len(hp[g.data])

\* what each instance reads at each coordinate (ghost: "null" for an
\* instance without buffer, "oob" for an index outside its buffer)
GridRead(hp, g, a) ==
  IF g.data = NULL THEN "null"
  ELSE IF ~InBuffer(hp, g, a) THEN "oob"
  ELSE grid_get(hp, g, a)

GridSnapshot == [j \in DOMAIN grid |-> [a \in GridDomain |-> GridRead(heap, grid[j], a)]]

GridEntry(o, i, a, v) == [op |-> o, who |-> i, at |-> a, x |-> v, before |-> GridSnapshot]

\* Grid(T const& init, int w, int h): new T[w*h], then std::fill
GridNew(init, gw, gh) ==
  /\ heap = (1 :> [k \in 1..(gw * gh) |-> init])
  /\ grid = (1 :> [data |-> 1, w |-> gw, h |-> gh])
  /\ ctor = [init |-> init, w |-> gw, h |-> gh]

\* grid[a] = x
grid_set(i, a, x) ==
  LET g == grid[i]
  IN /\ heap' = [heap EXCEPT ![g.data][grid_index(g, a) + 1] = x]
     /\ log'  = Append(log, GridEntry("set", i, a, x))
     /\ UNCHANGED <<grid, freed>>

NewAddr == Cardinality(DOMAIN heap) + 1

\* slip: takes over that.data instead of allocating
GridCopy_shared(i, j) ==
  LET that == grid[i]
  IN /\ grid' = grid @@ (j :> [data |-> that.data, w |-> that.w, h |-> that.h])
     /\ log'  = Append(log, GridEntry("copy", j, [x |-> 0, y |-> 0], 0))
     /\ UNCHANGED <<heap, freed>>

\* Grid(Grid const& that): new T[that.w*that.h], then std::copy of all of
\* that's elements, which overwrites every slot of the new buffer
GridCopy(i, j) ==
  LET that == grid[i]
      n    == that.w * that.h
      d    == NewAddr
  IN /\ grid' = grid @@ (j :> [data |-> d, w |-> that.w, h |-> that.h])
     /\ heap' = heap @@ (d :> StdCopy(heap[that.data], n, [k \in 1..n |-> 0]))
     /\ freed' = freed @@ (d :> 0)
     /\ log'  = Append(log, GridEntry("copy", j, [x |-> 0, y |-> 0], 0))

\* Grid(Grid&& that): only data is initialised; w and h of the new
\* instance are never written, that.w and that.h are never changed
GridMove(i, j, gw, gh) ==
  LET that == grid[i]
  IN /\ grid' = [grid EXCEPT ![i].data = NULL]
                  @@ (j :> [data |-> that.data, w |-> gw, h |-> gh])
     /\ log'  = Append(log, GridEntry("move", j, [x |-> 0, y |-> 0], 0))
     /\ UNCHANGED <<heap, freed>>

InitGrid ==
  /\ \E init \in Val : \E gw \in 1..MaxDim : \E gh \in 1..MaxDim : GridNew(init, gw, gh)
  /\ log = << >>
  /\ NoRing /\ NoGeo /\ NoScan /\ NoneFreed

\* the caller indexes with coordinates of the constructed rectangle; an
\* index outside the buffer is undefined behaviour and is not taken
GridSetAny ==
  \E i \in DOMAIN grid : \E a \in GridDomain : \E x \in Val :
    InBuffer(heap, grid[i], a) /\ grid_set(i, a, x)

GridCopyConstruct ==
  2 \notin DOMAIN grid /\ grid[1].data # NULL /\ GridCopy(1, 2)

GridMoveConstruct ==
  /\ 2 \notin DOMAIN grid
  /\ \E gw \in Indeterminate : \E gh \in Indeterminate : GridMove(1, 2, gw, gh)

NextGrid ==
  /\ Len(log) < MaxGridOps
  /\ (GridSetAny \/ GridCopyConstruct \/ GridMoveConstruct)
  /\ UNCHANGED <<ringVars, ctor, geoVars, scanVars>>

SpecGrid == InitGrid /\ [][NextGrid]_vars

\* ------------------------------------------------------ Grid properties

LastIs(o) == Len(log) >= 1 /\ log[Len(log)].op = o
CopyMade  == \E k \in 1..Len(log) : log[k].op = "copy"

\* C8: a Grid constructed with value v and dimensions (W,H) has
\* size() = W*H and every iterated element equal to v before any mutation;
\* after set(c, x) for a valid c, get(c) = x and every other valid
\* coordinate reads its previous value.
C8_GridInitAndSet ==
  LET g == grid[1]
      n == Len(log)
  IN /\ n = 0 =>
          /\ grid_size(g) = ctor.w * ctor.h
          /\ Len(grid_elements(heap, g)) = ctor.w * ctor.h
          /\ \A k \in 1..grid_size(g) : grid_elements(heap, g)[k] = ctor.init
     /\ (LastIs("set") /\ log[n].who = 1) =>
          /\ grid_get(heap, g, log[n].at) = log[n].x
          /\ \A a \in GridDomain \ {log[n].at} :
                grid_get(heap, g, a) = log[n].before[1][a]

C8_Witness ==
  LET n == Len(log)
  IN /\ LastIs("set") /\ log[n].who = 1
     /\ ctor.w = 2 /\ ctor.h = 2
     /\ log[n].at = [x |-> 1, y |-> 1]
     /\ log[n].x # ctor.init
     /\ grid_get(heap, grid[1], log[n].at) = log[n].x
     /\ \A a \in GridDomain \ {log[n].at} : grid_get(heap, grid[1], a) = ctor.init

\* C9: after copy-constructing g2 from g1, g2 has the dimensions and cell
\* values of g1, and no later set on one of them changes a cell of the other.
C9_GridCopyIndependent ==
  LET n == Len(log)
  IN /\ LastIs("copy") =>
          /\ grid[2].w = grid[1].w /\ grid[2].h = grid[1].h
          /\ grid_size(grid[2]) = grid_size(grid[1])
          /\ \A a \in GridDomain :
                grid_get(heap, grid[2], a) = grid_get(heap, grid[1], a)
     /\ (CopyMade /\ LastIs("set") /\ 2 \in DOMAIN log[n].before) =>
          \A j \in DOMAIN grid \ {log[n].who} :
            \A a \in GridDomain : grid_get(heap, grid[j], a) = log[n].before[j][a]

C9_Witness ==
  LET n == Len(log)
  IN /\ CopyMade /\ LastIs("set") /\ 2 \in DOMAIN log[n].before
     /\ log[n].who = 2
     /\ log[n].x # log[n].before[2][log[n].at]
     /\ grid_get(heap, grid[2], log[n].at) = log[n].x
     /\ grid_get(heap, grid[1], log[n].at) = log[n].before[1][log[n].at]

\* C10: move-constructing a Grid gives the new grid the source's former
\* dimensions (size() = old W*H) and cell contents, and leaves the source
\* empty: it owns no buffer and reports no cells.
C10_GridMoveTransfers ==
  LET n == Len(log)
  IN LastIs("move") =>
       /\ grid_size(grid[2]) = ctor.w * ctor.h
       /\ grid[2].w = ctor.w /\ grid[2].h = ctor.h
       /\ \A a \in GridDomain : GridRead(heap, grid[2], a) = log[n].before[1][a]
       /\ grid[1].data = NULL
       /\ grid_size(grid[1]) = 0
\* -------------------------------------------------------------- Geometry

Dir == {"up", "down", "left", "right"}

w == 30
h == 30

\* what operator - (Coord, Coord) throws
NotADir == "Not a dir"

Abs(n) == IF n < 0 THEN -n ELSE n

\* slip: left is returned for left
invert_leftstuck(dir) ==
  CASE dir = "up"   -> "down"
    [] dir = "down" -> "up"
    [] OTHER        -> "left"

\* operator - (Dir)
invert(dir) ==
  CASE dir = "up"   -> "down"
    [] dir = "down" -> "up"
    [] dir = "left" -> "right"
    [] OTHER        -> "left"

\* operator + (Coord, Dir)
coord_plus(a, dir) ==
  CASE dir = "up"   -> [x |-> a.x, y |-> a.y - 1]
    [] dir = "down" -> [x |-> a.x, y |-> a.y + 1]
    [] dir = "left" -> [x |-> a.x - 1, y |-> a.y]
    [] OTHER        -> [x |-> a.x + 1, y |-> a.y]

\* slip: up and down exchanged
coord_minus_flipped(a, b) ==
  IF a.x = b.x THEN
    IF a.y = b.y - 1 THEN "down"
    ELSE IF a.y = b.y + 1 THEN "up"
    ELSE NotADir
  ELSE IF a.y = b.y THEN
    IF a.x = b.x - 1 THEN "left"
    ELSE IF a.x = b.x + 1 THEN "right"
    ELSE NotADir
  ELSE NotADir

\* slip: a default direction, as in the two switch statements, instead of
\* the throw
coord_minus_default(a, b) ==
  IF a.x = b.x THEN
    IF a.y = b.y - 1 THEN "up"
    ELSE IF a.y = b.y + 1 THEN "down"
    ELSE "right"
  ELSE IF a.y = b.y THEN
    IF a.x = b.x - 1 THEN "left"
    ELSE IF a.x = b.x + 1 THEN "right"
    ELSE "right"
  ELSE "right"

\* operator - (Coord, Coord): a direction, or the thrown "Not a dir"
coord_minus(a, b) ==
  IF a.x = b.x THEN
    IF a.y = b.y - 1 THEN "up"
    ELSE IF a.y = b.y + 1 THEN "down"
    ELSE NotADir
  ELSE IF a.y = b.y THEN
    IF a.x = b.x - 1 THEN "left"
    ELSE IF a.x = b.x + 1 THEN "right"
    ELSE NotADir
  ELSE NotADir

\* slip: std::abs left out
is_neighbor_noabs(a, b) ==
  IF a.x = b.x THEN a.y - b.y = 1
  ELSE IF a.y = b.y THEN a.x - b.x = 1
  ELSE FALSE

is_neighbor(a, b) ==
  IF a.x = b.x THEN Abs(a.y - b.y) = 1
  ELSE IF a.y = b.y THEN Abs(a.x - b.x) = 1
  ELSE FALSE

\* a bool result, kept apart from "not computed"
Shown(flag) == IF flag THEN "true" ELSE "false"

valid(a) == a.x >= 0 /\ a.x < w /\ a.y >= 0 /\ a.y < h

\* the coordinates tried: the grid rectangle and one ring around it
Window == {[x |-> px, y |-> py] : px \in -1..w, py \in -1..h}

Near(a) == {[x |-> a.x + dx, y |-> a.y + dy] : dx \in -MaxDist..MaxDist, dy \in -MaxDist..MaxDist}

InitGeo ==
  /\ ca \in Window
  /\ cb \in Near(ca)
  /\ cd = None /\ res = None /\ rres = None
  /\ nb = None /\ rnb = None /\ inv = None /\ inv2 = None
  /\ heap = << >> /\ log = << >>
  /\ NoRing /\ NoGrid /\ NoScan /\ NoneFreed

\* cb = ca + d
GeoStep ==
  \E d \in Dir :
    /\ cd = None
    /\ cb' = coord_plus(ca, d)
    /\ cd' = d
    /\ res' = None /\ rres' = None
    /\ nb' = None /\ rnb' = None
    /\ UNCHANGED <<ca, inv, inv2>>

\* ca - cb
GeoBetween ==
  /\ res = None
  /\ res' = coord_minus(ca, cb)
  /\ UNCHANGED <<ca, cb, cd, rres, nb, rnb, inv, inv2>>

\* cb - ca
GeoBetweenRev ==
  /\ rres = None
  /\ rres' = coord_minus(cb, ca)
  /\ UNCHANGED <<ca, cb, cd, res, nb, rnb, inv, inv2>>

\* is_neighbor(ca, cb)
GeoNeighbor ==
  /\ nb = None
  /\ nb' = Shown(is_neighbor(ca, cb))
  /\ UNCHANGED <<ca, cb, cd, res, rres, rnb, inv, inv2>>

\* is_neighbor(cb, ca), called after is_neighbor(ca, cb)
GeoNeighborRev ==
  /\ nb # None /\ rnb = None
  /\ rnb' = Shown(is_neighbor(cb, ca))
  /\ UNCHANGED <<ca, cb, cd, res, rres, nb, inv, inv2>>

\* -cd
GeoInvert ==
  /\ cd # None /\ inv = None
  /\ inv' = invert(cd)
  /\ UNCHANGED <<ca, cb, cd, res, rres, nb, rnb, inv2>>

\* -(-cd)
GeoInvertTwice ==
  /\ inv # None /\ inv2 = None
  /\ inv2' = invert(inv)
  /\ UNCHANGED <<ca, cb, cd, res, rres, nb, rnb, inv>>

NextGeo ==
  /\ (GeoStep \/ GeoBetween \/ GeoBetweenRev \/ GeoNeighbor \/ GeoNeighborRev
        \/ GeoInvert \/ GeoInvertTwice)
  /\ UNCHANGED <<heap, log, ringVars, gridVars, scanVars, freed>>

SpecGeo == InitGeo /\ [][NextGeo]_vars

\* -------------------------------------------------- Geometry properties

Manhattan(a, b) == Abs(a.x - b.x) + Abs(a.y - b.y)

\* C6 as claimed: for valid c and d with c+d valid, c - (c+d) = d.
C6_BetweenStepIsDir ==
  (cd # None /\ valid(ca) /\ valid(cb) /\ res # None) => res = cd

\* C6 as amended: for valid c and d with c+d valid, (c+d) - c = d, and
\* c - (c+d) is the inverse of d.
C6_BetweenStepIsInverse ==
  (cd # None /\ valid(ca) /\ valid(cb)) =>
    /\ res # None => res = invert(cd)
    /\ rres # None => rres = cd

C6_Witness ==
  /\ cd = "up" /\ valid(ca) /\ valid(cb)
  /\ cb = coord_plus(ca, "up")
  /\ res = "down" /\ rres = "up"

\* C7: a - b throws for every pair that is not at Manhattan distance exactly
\* 1 (identical, diagonal, two or more steps apart) and returns a direction
\* for every pair at Manhattan distance exactly 1.
C7_BetweenDefinedIffAdjacent ==
  /\ res # None =>
       /\ Manhattan(ca, cb) # 1 => res = NotADir
       /\ Manhattan(ca, cb) = 1 => res \in Dir
  /\ rres # None =>
       /\ Manhattan(cb, ca) # 1 => rres = NotADir
       /\ Manhattan(cb, ca) = 1 => rres \in Dir

C7_Witness ==
  /\ cb = [x |-> ca.x + 1, y |-> ca.y + 1]
  /\ res = NotADir /\ rres = NotADir
\* C12: for every direction d, invert(invert(d)) = d and d # invert(d);
\* invert swaps up with down and left with right.
C12_InvertInvolution ==
  /\ inv # None =>
       /\ inv # cd
       /\ inv \in Dir
       /\ cd \in {"up", "down"} <=> inv \in {"up", "down"}
  /\ inv2 # None => inv2 = cd

C12_Witness ==
  cd = "left" /\ inv = "right" /\ inv2 = "left"

\* C14: is_neighbor(a, b) is true iff a and b differ by exactly 1 in exactly
\* one axis and are equal in the other; it is symmetric, false for a = b, and
\* true exactly for the pairs on which a - b is defined.
C14_NeighborIffAdjacent ==
  LET dx == Abs(ca.x - cb.x)
      dy == Abs(ca.y - cb.y)
  IN /\ nb # None =>
          /\ nb = "true" <=> ((dx = 1 /\ dy = 0) \/ (dx = 0 /\ dy = 1))
          /\ ca = cb => nb = "false"
          /\ res # None => (nb = "true" <=> res \in Dir)
     /\ rnb # None => rnb = nb

C14_Witness ==
  /\ cb = [x |-> ca.x, y |-> ca.y - 1]
  /\ nb = "true" /\ rnb = "true"
  /\ res \in Dir

\* ------------------------------------------------- whole-grid enumeration

\* CoordRange::begin() and CoordRange::end()
coords_begin == [x |-> 0, y |-> 0]
coords_end   == [x |-> 0, y |-> h]

\* slip: wraps one column late
iterator_inc_late(c) ==
  IF c.x + 1 > w THEN [x |-> 0, y |-> c.y + 1]
                 ELSE [x |-> c.x + 1, y |-> c.y]

\* CoordRange::iterator::operator ++
iterator_inc(c) ==
  IF c.x + 1 = w THEN [x |-> 0, y |-> c.y + 1]
                 ELSE [x |-> c.x + 1, y |-> c.y]

\* a scan is the loop  for (auto c : coords) ...  ; it runs over a Grid of
\* the default dimensions or of small explicit ones
InitScan ==
  /\ it = coords_begin /\ seen = << >> /\ prev = << >>
  /\ \E init \in Val :
       \/ GridNew(init, w, h)
       \/ \E gw \in 1..MaxDim : \E gh \in 1..MaxDim : GridNew(init, gw, gh)
  /\ log = << >>
  /\ NoRing /\ NoGeo /\ NoneFreed

\* one round of the loop: it != end(), yield *it, ++it, over the grid of
\* the default dimensions.  The length guard only stops a scan that has
\* already run past w*h coordinates.
ScanStep ==
  /\ it # coords_end
  /\ Len(seen) <= w * h
  /\ grid[1].w = w /\ grid[1].h = h
  /\ seen' = Append(seen, it)
  /\ it' = iterator_inc(it)
  /\ UNCHANGED <<prev, heap, log, grid, freed>>

\* the loop is started a second time
ScanRestart ==
  /\ it = coords_end
  /\ prev = << >>
  /\ prev' = seen
  /\ seen' = << >>
  /\ it' = coords_begin
  /\ UNCHANGED <<heap, log, grid, freed>>

\* cells of the small grids are set; the grid of the default dimensions is
\* the one the scans run over
ScanGridSet ==
  /\ grid[1].w # w
  /\ Len(log) < MaxGridOps
  /\ GridSetAny
  /\ UNCHANGED scanVars

NextScan ==
  /\ (ScanStep \/ ScanRestart \/ ScanGridSet)
  /\ UNCHANGED <<ringVars, ctor, geoVars>>

SpecScan == InitScan /\ [][NextScan]_vars

\* the k-th coordinate (from 0) of the nested loops  for y, for x
RowMajor(k) == [x |-> k % w, y |-> k \div w]

Rect == {[x |-> px, y |-> py] : px \in 0..(w - 1), py \in 0..(h - 1)}

SeenSet == {seen[k] : k \in 1..Len(seen)}

\* C11: stepping begin() with ++ until it equals end() stops after exactly
\* W*H steps, visits every coordinate of [0,W)x[0,H) exactly once and none
\* outside, in row-major order, and a restarted scan yields the same sequence.
C11_ScanRowMajor ==
  /\ Len(seen) <= w * h
  /\ (it = coords_end) <=> (Len(seen) = w * h)
  /\ \A k \in 1..Len(seen) : seen[k] = RowMajor(k - 1) /\ valid(seen[k])
  /\ it = coords_end => SeenSet = Rect /\ Cardinality(SeenSet) = Len(seen)
  /\ (it = coords_end /\ prev # << >>) => seen = prev

C11_Witness ==
  /\ it = coords_end
  /\ prev # << >>
  /\ Len(seen) = w * h
  /\ seen[w + 1] = [x |-> 0, y |-> 1]
  /\ seen = prev

\* C18: Grid iteration visits all size() elements in row-major storage
\* order: the k-th element visited is the cell at (k mod width, k div width),
\* and for a grid of the default dimensions it is the cell the k-th
\* coordinate of the whole-grid enumeration addresses.
C18_IterationRowMajor ==
  LET g == grid[1]
  IN /\ Len(heap[g.data]) = grid_size(g)
     /\ \A k \in 0..(grid_size(g) - 1) :
          LET c == [x |-> k % g.w, y |-> k \div g.w]
          IN /\ c.x < g.w /\ c.y < g.h
             /\ grid_index(g, c) = k
             /\ grid_iter(heap, g, k) = grid_get(heap, g, c)
     /\ (g.w = w /\ g.h = h) =>
          \A k \in 1..Len(seen) :
            /\ grid_index(g, seen[k]) = k - 1
            /\ grid_iter(heap, g, k - 1) = grid_get(heap, g, seen[k])

C18_Witness ==
  /\ LastIs("set")
  /\ grid[1].w = 1 /\ grid[1].h = 2
  /\ log[Len(log)].at = [x |-> 0, y |-> 1]
  /\ log[Len(log)].x # ctor.init
  /\ grid_iter(heap, grid[1], 1) = log[Len(log)].x
  /\ grid_iter(heap, grid[1], 0) = ctor.init

\* ------------------------------------------------- construction, destruction

Without(f, i) == [j \in DOMAIN f \ {i} |-> f[j]]

\* ~RingBuffer(): delete [] data
RingDestroy(i) ==
  /\ freed' = [freed EXCEPT ![rb[i].data] = @ + 1]
  /\ rb'    = Without(rb, i)
  /\ log'   = Append(log, Entry("destroy", i, 0))
  /\ UNCHANGED heap

\* ~Grid(): delete[] data, which does nothing for nullptr
GridDestroy(i) ==
  /\ freed' = IF grid[i].data = NULL THEN freed
                                    ELSE [freed EXCEPT ![grid[i].data] = @ + 1]
  /\ grid'  = Without(grid, i)
  /\ log'   = Append(log, GridEntry("destroy", i, [x |-> 0, y |-> 0], 0))
  /\ UNCHANGED heap

\* one RingBuffer or one Grid has been constructed
InitLife == Init \/ InitGrid

LifeRingCopy ==
  /\ 1 \in DOMAIN rb
  /\ CopyConstruct
  /\ UNCHANGED <<gridVars, freed>>

LifeRingDestroy ==
  /\ \E i \in DOMAIN rb : RingDestroy(i)
  /\ UNCHANGED gridVars

LifeGridCopy ==
  /\ 1 \in DOMAIN grid
  /\ GridCopyConstruct
  /\ UNCHANGED <<ringVars, ctor>>

LifeGridMove ==
  /\ 1 \in DOMAIN grid
  /\ GridMoveConstruct
  /\ UNCHANGED <<ringVars, ctor>>

LifeGridDestroy ==
  /\ \E i \in DOMAIN grid : GridDestroy(i)
  /\ UNCHANGED <<ringVars, ctor>>

NextLife ==
  /\ Len(log) < MaxCopyOps
  /\ (LifeRingCopy \/ LifeRingDestroy \/ LifeGridCopy \/ LifeGridMove
        \/ LifeGridDestroy)
  /\ UNCHANGED <<geoVars, scanVars>>

SpecLife == InitLife /\ [][NextLife]_vars

\* the live instances whose data points at buffer a
Owners(a) ==
  {<<"RingBuffer", i>> : i \in {j \in DOMAIN rb : rb[j].data = a}}
    \cup {<<"Grid", i>> : i \in {j \in DOMAIN grid : grid[j].data = a}}

\* C20: over any sequence of construct, copy-construct, move-construct and
\* destroy operations, every allocated buffer is owned by exactly one live
\* instance until it is released, is released at most once, and no live
\* instance points at a released buffer.
C20_SingleOwnership ==
  \A a \in DOMAIN heap :
    /\ freed[a] <= 1
    /\ freed[a] = 0 => Cardinality(Owners(a)) = 1
    /\ freed[a] >= 1 => Owners(a) = {}
====
